---- MODULE Spec2Model ----
(***************************************************************************)
(* Model of the speed meter of src/src/ssh-speedometer.ino: the control    *)
(* loop (pollButtons, pollSensors), the button decoder, the device state   *)
(* machine with its history list, and measureSpeed with its busy-waits.    *)
(*                                                                         *)
(* Time.  The code reads the clocks only through differences               *)
(* (millis() - buttonDebounceTime[index], millis() - buttonHoldTime,       *)
(* micros() - sensorTime), so the model keeps these differences            *)
(* (debounceElapsed, holdElapsed, busyElapsed) instead of the time stamps: *)
(* storing millis() is "elapsed := 0", and the passing of time adds to     *)
(* every difference.  Time passes in quanta of TickMillis; a difference    *)
(* stops growing once it exceeds the constant it is compared with.         *)
(***************************************************************************)
EXTENDS Integers, Sequences, FiniteSets, TLC

\* ------------------------------------------------------------ bounds
\* One quantum of time, in milliseconds.
TickMillis == 400
\* Capacity of the history ring.  The source has 100 (line 79); the model
\* scales it down so that a full buffer is reached.
HISTORY_SIZE == 2
\* Cap on the length of the list, which the code itself does not bound.
MaxHistory == 3

\* ------------------------------------------------------------ constants
DEBOUNCE_TIME == 30
DISPLAY_WAIT_TIME == 1500
BUTTON_HOLD_TIME == 500
MAX_MEASURE_TIME == 1500000
MIN_SPEED == 0
MAX_SPEED == 50
MIN_SENSOR_DISTANCE == 275
MAX_SENSOR_DISTANCE == 325

LEFT == 0
RIGHT == 1
LOW == 0
HIGH == 1

\* Analog pin numbers A0 and A6 of the ATmega328 boards that have an A6/A7
\* (pins_arduino.h, standard variant): 14 and 20.
LEFT_SENSOR == 14
RIGHT_SENSOR == 20

NO_BUTTON_PRESSED == 0
LEFT_BUTTON_PRESSED == 1
RIGHT_BUTTON_PRESSED == 2
BOTH_BUTTONS_PRESSED == 3

STATE_DEFAULT == 0
STATE_HISTORY == 1
STATE_HISTORY_MENU == 2
STATE_SETTINGS == 3
STATE_REPLACE == 4
STATE_REPLACE_QUESTION == 5
STATE_REMOVE == 6
STATE_LEFT_SENSOR_ERROR == 7
STATE_RIGHT_SENSOR_ERROR == 8
STATE_BOTH_SENSORS_ERROR == 9

HISTORY_BACK == 0
HISTORY_REPLACE == 1
HISTORY_REMOVE == 2
HISTORY_REMOVE_ALL == 3

Channels == {LEFT, RIGHT}
Other(c) == 1 - c

\* Readings of the distance potentiometer the model draws from.
PotReadings == {512}
\* Values of micros() at the moment a sensor triggers the model draws from.
MicrosAtTrigger == {1000000}

VARIABLES
  state, subState, writeIndex, readIndex,
  buttonLastState, buttonState, debounceElapsed, holdElapsed,
  history,
  pc, index, sensorTime, busyElapsed,
  button, sensorLow,
  polled, sampled, rawStable,
  fired, settled, gesture, releasedEarly, written

progVars == <<state, subState, writeIndex, readIndex, buttonLastState,
              buttonState, debounceElapsed, holdElapsed, history>>
measVars == <<pc, index, sensorTime, busyElapsed>>
envVars == <<button, sensorLow>>
ghostVars == <<polled, sampled, rawStable, fired, settled, gesture,
               releasedEarly, written>>
vars == <<progVars, measVars, envVars, ghostVars>>

\* rawStable [c] is the time the level of pin c has been what it is; it is
\* kept only in the specifications that start it at 0 (Untracked otherwise).
Untracked == 0 - 1

\* ------------------------------------------------------------ time
\* The first multiple of the quantum that exceeds limit: a difference that
\* has reached it compares the same as any larger one.
Cap(limit) == ((limit \div TickMillis) + 1) * TickMillis
Min(a, b) == IF a < b THEN a ELSE b
Advance(elapsed, by, limit) == Min(elapsed + by, Cap(limit))

TickMicros == TickMillis * 1000

\* ------------------------------------------------------------ LinkedList
\* LinkedList<float>: a sequence; the code's index i is position i + 1.
LLsize(h) == Len(h)
LLget(h, i) == IF i >= 0 /\ i < Len(h) THEN h[i + 1] ELSE 0
LLset(h, i, v) == IF i >= 0 /\ i < Len(h) THEN [h EXCEPT ![i + 1] = v] ELSE h
LLappend(h, v) == Append(h, v)
LLinsert(h, i, v) ==
  IF i >= Len(h) THEN Append(h, v)
  ELSE SubSeq(h, 1, i) \o <<v>> \o SubSeq(h, i + 1, Len(h))
LLremove(h, i) ==
  IF i >= 0 /\ i < Len(h)
  THEN SubSeq(h, 1, i) \o SubSeq(h, i + 2, Len(h))
  ELSE h

\* ------------------------------------------------------------ program state
\* The globals of the sketch as one record, so that the statements of a
\* handler compose in order.  ev, acc, gest, early and wr are bookkeeping,
\* not program state: the handlers the run of pollButtons in progress has
\* called (each with millis() - buttonHoldTime at the call), the channels it
\* has settled, the handlers called for the gesture under way (from the
\* settle that sets buttonState to its return to NO_BUTTON_PRESSED),
\* whether both buttons went up before the hold time of the both-pressed
\* gesture under way, and the slot the last measurement was stored in.
G == [state |-> state, subState |-> subState, writeIndex |-> writeIndex,
      readIndex |-> readIndex, buttonLastState |-> buttonLastState,
      buttonState |-> buttonState, debounceElapsed |-> debounceElapsed,
      holdElapsed |-> holdElapsed, history |-> history,
      ev |-> <<>>, acc |-> {}, gest |-> gesture, early |-> releasedEarly,
      wr |-> written]

\* The clearing of the list without the reset of writeIndex.
clearHistoryKeepingWriteIndex(g) == [g EXCEPT !.history = <<>>]

clearHistory(g) == [g EXCEPT !.history = <<>>, !.writeIndex = -1]

\* The right short press with the last branch taking the left one's state.
rightButtonPressedToHistory(g) ==
  LET g0 == [g EXCEPT !.buttonState = NO_BUTTON_PRESSED] IN
  CASE g0.state = STATE_SETTINGS ->
         IF g0.subState < 3 THEN [g0 EXCEPT !.subState = @ + 1] ELSE g0
    [] g0.state = STATE_HISTORY ->
         IF LLsize(g0.history) > 0
         THEN IF g0.readIndex < LLsize(g0.history) - 1
              THEN [g0 EXCEPT !.readIndex = @ + 1]
              ELSE [g0 EXCEPT !.readIndex = 0]
         ELSE g0
    [] g0.state = STATE_HISTORY_MENU ->
         IF g0.subState < 5 THEN [g0 EXCEPT !.subState = @ + 1] ELSE g0
    [] g0.state = STATE_REPLACE -> g0
    [] g0.state = STATE_REPLACE_QUESTION ->
         [g0 EXCEPT !.history = LLremove(@, g0.readIndex),
                    !.state = STATE_HISTORY]
    [] g0.state = STATE_REMOVE -> [g0 EXCEPT !.state = STATE_HISTORY]
    [] OTHER -> [g0 EXCEPT !.state = STATE_HISTORY]

\* The right short press with the limit of the history menu used for the
\* settings pages as well.
rightButtonPressedSettingsToFive(g) ==
  LET g0 == [g EXCEPT !.buttonState = NO_BUTTON_PRESSED] IN
  CASE g0.state = STATE_SETTINGS ->
         IF g0.subState < 5 THEN [g0 EXCEPT !.subState = @ + 1] ELSE g0
    [] g0.state = STATE_HISTORY ->
         IF LLsize(g0.history) > 0
         THEN IF g0.readIndex < LLsize(g0.history) - 1
              THEN [g0 EXCEPT !.readIndex = @ + 1]
              ELSE [g0 EXCEPT !.readIndex = 0]
         ELSE g0
    [] g0.state = STATE_HISTORY_MENU ->
         IF g0.subState < 5 THEN [g0 EXCEPT !.subState = @ + 1] ELSE g0
    [] g0.state = STATE_REPLACE -> g0
    [] g0.state = STATE_REPLACE_QUESTION ->
         [g0 EXCEPT !.history = LLremove(@, g0.readIndex),
                    !.state = STATE_HISTORY]
    [] g0.state = STATE_REMOVE -> [g0 EXCEPT !.state = STATE_HISTORY]
    [] OTHER -> [g0 EXCEPT !.state = STATE_SETTINGS]

\* The right short press with the answer to the question removing the
\* entry behind the staged one.
rightButtonPressedRemovingOld(g) ==
  LET g0 == [g EXCEPT !.buttonState = NO_BUTTON_PRESSED] IN
  CASE g0.state = STATE_SETTINGS ->
         IF g0.subState < 3 THEN [g0 EXCEPT !.subState = @ + 1] ELSE g0
    [] g0.state = STATE_HISTORY ->
         IF LLsize(g0.history) > 0
         THEN IF g0.readIndex < LLsize(g0.history) - 1
              THEN [g0 EXCEPT !.readIndex = @ + 1]
              ELSE [g0 EXCEPT !.readIndex = 0]
         ELSE g0
    [] g0.state = STATE_HISTORY_MENU ->
         IF g0.subState < 5 THEN [g0 EXCEPT !.subState = @ + 1] ELSE g0
    [] g0.state = STATE_REPLACE -> g0
    [] g0.state = STATE_REPLACE_QUESTION ->
         [g0 EXCEPT !.history = LLremove(@, g0.readIndex + 1),
                    !.state = STATE_HISTORY]
    [] g0.state = STATE_REMOVE -> [g0 EXCEPT !.state = STATE_HISTORY]
    [] OTHER -> [g0 EXCEPT !.state = STATE_SETTINGS]

rightButtonPressed(g) ==
  LET g0 == [g EXCEPT !.buttonState = NO_BUTTON_PRESSED] IN
  CASE g0.state = STATE_SETTINGS ->
         IF g0.subState < 3 THEN [g0 EXCEPT !.subState = @ + 1] ELSE g0
    [] g0.state = STATE_HISTORY ->
         IF LLsize(g0.history) > 0
         THEN IF g0.readIndex < LLsize(g0.history) - 1
              THEN [g0 EXCEPT !.readIndex = @ + 1]
              ELSE [g0 EXCEPT !.readIndex = 0]
         ELSE g0
    [] g0.state = STATE_HISTORY_MENU ->
         IF g0.subState < 5 THEN [g0 EXCEPT !.subState = @ + 1] ELSE g0
    [] g0.state = STATE_REPLACE -> g0
    [] g0.state = STATE_REPLACE_QUESTION ->
         [g0 EXCEPT !.history = LLremove(@, g0.readIndex),
                    !.state = STATE_HISTORY]
    [] g0.state = STATE_REMOVE -> [g0 EXCEPT !.state = STATE_HISTORY]
    [] OTHER -> [g0 EXCEPT !.state = STATE_SETTINGS]

\* The single delete with the cursor left where it was.
removeKeepingReadIndex(g) ==
  [g EXCEPT !.history = LLremove(@, g.readIndex)]

\* The single delete with the cursor moved back whatever entry it was on.
removeMovingBack(g) ==
  [g EXCEPT !.history = LLremove(@, g.readIndex), !.readIndex = @ - 1]

\* Lines 373-374: the single delete, and the cursor when it was on the
\* last entry.
removeAtReadIndex(g) ==
  LET h == LLremove(g.history, g.readIndex) IN
  [g EXCEPT !.history = h,
            !.readIndex = IF @ = LLsize(h) THEN @ - 1 ELSE @]

\* The left short press with the removal of REPLACE_QUESTION taken from the
\* right short press.
leftButtonPressedRemovingNew(g) ==
  LET g0 == [g EXCEPT !.buttonState = NO_BUTTON_PRESSED] IN
  CASE g0.state = STATE_SETTINGS \/ g0.state = STATE_HISTORY_MENU ->
         IF g0.subState > 0 THEN [g0 EXCEPT !.subState = @ - 1] ELSE g0
    [] g0.state = STATE_HISTORY ->
         IF g0.readIndex > 0
         THEN [g0 EXCEPT !.readIndex = @ - 1]
         ELSE [g0 EXCEPT !.readIndex = LLsize(g0.history) - 1]
    [] g0.state = STATE_REPLACE -> g0
    [] g0.state = STATE_REPLACE_QUESTION ->
         [g0 EXCEPT !.history = LLremove(@, g0.readIndex),
                    !.state = STATE_HISTORY]
    [] g0.state = STATE_REMOVE ->
         IF g0.readIndex >= 0
         THEN [removeAtReadIndex(g0) EXCEPT !.state = STATE_HISTORY]
         ELSE [clearHistory(g0) EXCEPT !.state = STATE_HISTORY]
    [] OTHER -> [g0 EXCEPT !.state = STATE_HISTORY]

\* The left short press with the last branch taking the right one's state.
leftButtonPressedToSettings(g) ==
  LET g0 == [g EXCEPT !.buttonState = NO_BUTTON_PRESSED] IN
  CASE g0.state = STATE_SETTINGS \/ g0.state = STATE_HISTORY_MENU ->
         IF g0.subState > 0 THEN [g0 EXCEPT !.subState = @ - 1] ELSE g0
    [] g0.state = STATE_HISTORY ->
         IF g0.readIndex > 0
         THEN [g0 EXCEPT !.readIndex = @ - 1]
         ELSE [g0 EXCEPT !.readIndex = LLsize(g0.history) - 1]
    [] g0.state = STATE_REPLACE -> g0
    [] g0.state = STATE_REPLACE_QUESTION ->
         [g0 EXCEPT !.history = LLremove(@, g0.readIndex + 1),
                    !.state = STATE_HISTORY]
    [] g0.state = STATE_REMOVE ->
         IF g0.readIndex >= 0
         THEN [removeAtReadIndex(g0) EXCEPT !.state = STATE_HISTORY]
         ELSE [clearHistory(g0) EXCEPT !.state = STATE_HISTORY]
    [] OTHER -> [g0 EXCEPT !.state = STATE_SETTINGS]

leftButtonPressed(g) ==
  LET g0 == [g EXCEPT !.buttonState = NO_BUTTON_PRESSED] IN
  CASE g0.state = STATE_SETTINGS \/ g0.state = STATE_HISTORY_MENU ->
         IF g0.subState > 0 THEN [g0 EXCEPT !.subState = @ - 1] ELSE g0
    [] g0.state = STATE_HISTORY ->
         IF g0.readIndex > 0
         THEN [g0 EXCEPT !.readIndex = @ - 1]
         ELSE [g0 EXCEPT !.readIndex = LLsize(g0.history) - 1]
    [] g0.state = STATE_REPLACE -> g0
    [] g0.state = STATE_REPLACE_QUESTION ->
         [g0 EXCEPT !.history = LLremove(@, g0.readIndex + 1),
                    !.state = STATE_HISTORY]
    [] g0.state = STATE_REMOVE ->
         IF g0.readIndex >= 0
         THEN [removeAtReadIndex(g0) EXCEPT !.state = STATE_HISTORY]
         ELSE [clearHistory(g0) EXCEPT !.state = STATE_HISTORY]
    [] OTHER -> [g0 EXCEPT !.state = STATE_HISTORY]

\* The both-released action without the reset of the cursor (line 402).
bothButtonsPressedKeepingCursor(g) ==
  LET switched == IF g.state \in {STATE_HISTORY_MENU, STATE_REPLACE}
                  THEN STATE_HISTORY ELSE STATE_DEFAULT
  IN [g EXCEPT !.state = IF switched = STATE_HISTORY_MENU
                         THEN STATE_HISTORY ELSE STATE_DEFAULT,
               !.buttonState = NO_BUTTON_PRESSED]

\* The switch of lines 389-400, then the assignment of line 401, which
\* reads the state the switch has just written.
bothButtonsPressed(g) ==
  LET switched == IF g.state \in {STATE_HISTORY_MENU, STATE_REPLACE}
                  THEN STATE_HISTORY ELSE STATE_DEFAULT
  IN [g EXCEPT !.state = IF switched = STATE_HISTORY_MENU
                         THEN STATE_HISTORY ELSE STATE_DEFAULT,
               !.subState = 0,
               !.buttonState = NO_BUTTON_PRESSED]

\* The hold action with "remove all" leaving the cursor where it is.
rightButtonHoldKeepingCursor(g) ==
  CASE g.subState = HISTORY_REPLACE -> [g EXCEPT !.state = STATE_REPLACE]
    [] g.subState = HISTORY_REMOVE -> [g EXCEPT !.state = STATE_REMOVE]
    [] g.subState = HISTORY_REMOVE_ALL -> [g EXCEPT !.state = STATE_REMOVE]
    [] OTHER -> [g EXCEPT !.state = STATE_HISTORY]

rightButtonHold(g) ==
  CASE g.subState = HISTORY_REPLACE -> [g EXCEPT !.state = STATE_REPLACE]
    [] g.subState = HISTORY_REMOVE -> [g EXCEPT !.state = STATE_REMOVE]
    [] g.subState = HISTORY_REMOVE_ALL ->
         [g EXCEPT !.readIndex = -1, !.state = STATE_REMOVE]
    [] OTHER -> [g EXCEPT !.state = STATE_HISTORY]

\* ------------------------------------------------------------ pollButtons
Fire(g, name) ==
  [g EXCEPT !.ev = Append(@, [name |-> name, hold |-> g.holdElapsed]),
            !.gest = IF Len(@) < 2 THEN Append(@, name) ELSE @]

\* buttonHoldTime = millis(); buttonState = pressed.
Press(g, pressed) ==
  [g EXCEPT !.holdElapsed = 0,
            !.buttonState = pressed,
            !.gest = IF g.buttonState = NO_BUTTON_PRESSED THEN <<>> ELSE @,
            !.early = FALSE]

\* The hold timeout with line 272 left out.
HoldBranchKeepingGesture(g) ==
  IF /\ g.buttonState = BOTH_BUTTONS_PRESSED
     /\ g.state = STATE_HISTORY
     /\ g.readIndex >= 0
  THEN Fire([g EXCEPT !.state = STATE_HISTORY_MENU], "bothHold")
  ELSE IF /\ g.buttonState = RIGHT_BUTTON_PRESSED
          /\ g.state = STATE_HISTORY_MENU
       THEN Fire(rightButtonHold(g), "rightHold")
       ELSE g

\* The hold timeout with the menu opened from the second entry on only.
HoldBranchFromSecondEntry(g) ==
  LET g1 == IF /\ g.buttonState = BOTH_BUTTONS_PRESSED
               /\ g.state = STATE_HISTORY
               /\ g.readIndex > 0
            THEN Fire([g EXCEPT !.state = STATE_HISTORY_MENU], "bothHold")
            ELSE IF /\ g.buttonState = RIGHT_BUTTON_PRESSED
                    /\ g.state = STATE_HISTORY_MENU
                 THEN Fire(rightButtonHold(g), "rightHold")
                 ELSE g
  IN [g1 EXCEPT !.buttonState = NO_BUTTON_PRESSED]

\* The hold timeout with the menu opened by the right button as well.
HoldBranchRightOpensMenu(g) ==
  LET g1 == IF /\ g.buttonState \in {BOTH_BUTTONS_PRESSED, RIGHT_BUTTON_PRESSED}
               /\ g.state = STATE_HISTORY
               /\ g.readIndex >= 0
            THEN Fire([g EXCEPT !.state = STATE_HISTORY_MENU], "bothHold")
            ELSE IF /\ g.buttonState = RIGHT_BUTTON_PRESSED
                    /\ g.state = STATE_HISTORY_MENU
                 THEN Fire(rightButtonHold(g), "rightHold")
                 ELSE g
  IN [g1 EXCEPT !.buttonState = NO_BUTTON_PRESSED]

\* Lines 257-273: the hold timeout.
HoldBranch(g) ==
  LET g1 == IF /\ g.buttonState = BOTH_BUTTONS_PRESSED
               /\ g.state = STATE_HISTORY
               /\ g.readIndex >= 0
            THEN Fire([g EXCEPT !.state = STATE_HISTORY_MENU], "bothHold")
            ELSE IF /\ g.buttonState = RIGHT_BUTTON_PRESSED
                    /\ g.state = STATE_HISTORY_MENU
                 THEN Fire(rightButtonHold(g), "rightHold")
                 ELSE g
  IN [g1 EXCEPT !.buttonState = NO_BUTTON_PRESSED]

\* The gesture rules with the release of a both-pressed gesture tested
\* after the rules of the single buttons.
StateLogicSinglesFirst(g, i, buttonRead) ==
  IF buttonRead[RIGHT] = HIGH /\ buttonRead[LEFT] = HIGH
  THEN Press(g, BOTH_BUTTONS_PRESSED)
  ELSE IF i = LEFT /\ buttonRead[i] = HIGH
  THEN Press(g, LEFT_BUTTON_PRESSED)
  ELSE IF i = LEFT /\ buttonRead[LEFT] = LOW
          /\ g.buttonState = LEFT_BUTTON_PRESSED
  THEN Fire(leftButtonPressed(g), "left")
  ELSE IF i = RIGHT /\ buttonRead[i] = HIGH
  THEN Press(g, RIGHT_BUTTON_PRESSED)
  ELSE IF i = RIGHT /\ buttonRead[RIGHT] = LOW
          /\ g.buttonState = RIGHT_BUTTON_PRESSED
  THEN Fire(rightButtonPressed(g), "right")
  ELSE IF g.buttonState = BOTH_BUTTONS_PRESSED
  THEN Fire(bothButtonsPressed(g), "both")
  ELSE g

\* Lines 280-314: the gesture rules, evaluated when channel i settles.
StateLogic(g, i, buttonRead) ==
  IF buttonRead[RIGHT] = HIGH /\ buttonRead[LEFT] = HIGH
  THEN Press(g, BOTH_BUTTONS_PRESSED)
  ELSE IF g.buttonState = BOTH_BUTTONS_PRESSED
  THEN Fire(bothButtonsPressed(g), "both")
  ELSE IF i = LEFT /\ buttonRead[i] = HIGH
  THEN Press(g, LEFT_BUTTON_PRESSED)
  ELSE IF i = LEFT /\ buttonRead[LEFT] = LOW
          /\ g.buttonState = LEFT_BUTTON_PRESSED
  THEN Fire(leftButtonPressed(g), "left")
  ELSE IF i = RIGHT /\ buttonRead[i] = HIGH
  THEN Press(g, RIGHT_BUTTON_PRESSED)
  ELSE IF i = RIGHT /\ buttonRead[RIGHT] = LOW
          /\ g.buttonState = RIGHT_BUTTON_PRESSED
  THEN Fire(rightButtonPressed(g), "right")
  ELSE g

\* Lines 276-277: the debounce test and the toggle of buttonLastState.
Settle(g, i, buttonRead) ==
  IF g.debounceElapsed[i] > DEBOUNCE_TIME
  THEN StateLogic([g EXCEPT !.buttonLastState[i] = 1 - @,
                            !.acc = @ \cup {i}], i, buttonRead)
  ELSE g

\* One pass of the for loop of lines 250-316.
ButtonIteration(g, i, buttonRead) ==
  LET g1 == IF buttonRead[i] # g.buttonLastState[i]
            THEN [g EXCEPT !.debounceElapsed[i] = 0] ELSE g
      g2 == IF g1.holdElapsed > BUTTON_HOLD_TIME THEN HoldBranch(g1) ELSE g1
  IN Settle(g2, i, buttonRead)

\* Lines 252-273 of the pass for channel i: the state the debounce test of
\* line 276 finds, the pass for LEFT having run before that for RIGHT.
BeforeSettle(g, i, buttonRead) ==
  LET g0 == IF i = LEFT THEN g ELSE ButtonIteration(g, LEFT, buttonRead)
      g1 == IF buttonRead[i] # g0.buttonLastState[i]
            THEN [g0 EXCEPT !.debounceElapsed[i] = 0] ELSE g0
  IN IF g1.holdElapsed > BUTTON_HOLD_TIME THEN HoldBranch(g1) ELSE g1

SinglePressed(i) == IF i = LEFT THEN LEFT_BUTTON_PRESSED
                    ELSE RIGHT_BUTTON_PRESSED

pollButtons(g, buttonRead) ==
  ButtonIteration(ButtonIteration(g, LEFT, buttonRead), RIGHT, buttonRead)

\* ------------------------------------------------------------ pollSensors
\* Speeds are kept in mm/s.  A division by zero gives the float +inf, kept
\* as a value above every finite speed of the model.
FloatInf == 2000 * 1000000
NoSpeed == -1000

\* map ( reading, 0, 1024, MIN_SENSOR_DISTANCE, MAX_SENSOR_DISTANCE )
getSensorDistance(reading) ==
  ((reading - 0) * (MAX_SENSOR_DISTANCE - MIN_SENSOR_DISTANCE)) \div (1024 - 0)
    + MIN_SENSOR_DISTANCE

\* The speed with the factor of the seconds taken for that of the
\* milliseconds.
SpeedOfPerMilli(sensorDistance, elapsedMicros) ==
  IF elapsedMicros = 0 THEN FloatInf
  ELSE (sensorDistance * 1000) \div elapsedMicros

\* The speed as time over distance.
SpeedOfInverted(sensorDistance, elapsedMicros) ==
  IF elapsedMicros = 0 THEN FloatInf
  ELSE (elapsedMicros * 1000) \div sensorDistance

\* ( sensorDistance * ( 1000000.0f / sensorTime ) ) / 1000.0f, in mm/s
SpeedOf(sensorDistance, elapsedMicros) ==
  IF elapsedMicros = 0 THEN FloatInf
  ELSE (sensorDistance * 1000000) \div elapsedMicros

\* The range test with the lower limit left out.
InRangeBelowMax(speed) == speed < MAX_SPEED * 1000

\* The range test without the upper limit.
InRangeAboveMin(speed) == speed > MIN_SPEED * 1000

InRange(speed) == speed > MIN_SPEED * 1000 /\ speed < MAX_SPEED * 1000

\* The states that measure, with HISTORY among them.
MeasuringInHistory ==
  {STATE_DEFAULT, STATE_LEFT_SENSOR_ERROR, STATE_RIGHT_SENSOR_ERROR,
   STATE_BOTH_SENSORS_ERROR, STATE_REPLACE, STATE_HISTORY}

Measuring == {STATE_DEFAULT, STATE_LEFT_SENSOR_ERROR, STATE_RIGHT_SENSOR_ERROR,
              STATE_BOTH_SENSORS_ERROR, STATE_REPLACE}

\* The storing with the replacement written over the entry at readIndex.
StoreSpeedOverwriting(g, speed) ==
  IF ~InRange(speed) THEN g
  ELSE IF g.state = STATE_REPLACE
  THEN [g EXCEPT !.history = LLset(@, g.readIndex, speed),
                 !.state = STATE_REPLACE_QUESTION]
  ELSE LET w == IF g.writeIndex < HISTORY_SIZE - 1 THEN g.writeIndex + 1 ELSE 0
           r == IF g.readIndex < 0 THEN 0 ELSE g.readIndex
           exists == LLget(g.history, w) # 0
       IN [g EXCEPT !.writeIndex = w,
                    !.readIndex = r,
                    !.history = IF exists THEN LLset(@, w, speed)
                                ELSE LLappend(@, speed),
                    !.wr = IF exists THEN w ELSE LLsize(g.history)]

\* Lines 446-470: what pollSensors does with the speed measureSpeed returned.
StoreSpeed(g, speed) ==
  IF ~InRange(speed) THEN g
  ELSE IF g.state = STATE_REPLACE
  THEN [g EXCEPT !.history = LLinsert(@, g.readIndex, speed),
                 !.state = STATE_REPLACE_QUESTION]
  ELSE LET w == IF g.writeIndex < HISTORY_SIZE - 1 THEN g.writeIndex + 1 ELSE 0
           r == IF g.readIndex < 0 THEN 0 ELSE g.readIndex
           exists == LLget(g.history, w) # 0
       IN [g EXCEPT !.writeIndex = w,
                    !.readIndex = r,
                    !.history = IF exists THEN LLset(@, w, speed)
                                ELSE LLappend(@, speed),
                    !.wr = IF exists THEN w ELSE LLsize(g.history)]

\* ------------------------------------------------------------ measureSpeed
ErrorOf(i) == IF i = LEFT THEN STATE_LEFT_SENSOR_ERROR
              ELSE STATE_RIGHT_SENSOR_ERROR
SensorPin(i) == IF i = LEFT THEN LEFT_SENSOR ELSE RIGHT_SENSOR

\* The head of one pass with the error states of lines 827-828 swapped.
ScanOneOtherError(r, i, low, micros) ==
  IF r.busy THEN r
  ELSE IF low[i]
  THEN [r EXCEPT !.busy = TRUE, !.index = i, !.sensorTime = micros]
  ELSE [r EXCEPT !.state = IF @ = ErrorOf(Other(i)) THEN STATE_DEFAULT ELSE @]

\* The head of one pass of the for loop (lines 792-794 and 827-830) on the
\* readings low: r is the call so far, r.busy says a busy-wait has started.
ScanOne(r, i, low, micros) ==
  IF r.busy THEN r
  ELSE IF low[i]
  THEN [r EXCEPT !.busy = TRUE, !.index = i, !.sensorTime = micros]
  ELSE [r EXCEPT !.state = IF @ = ErrorOf(i) THEN STATE_DEFAULT ELSE @]

\* The choice of the error state without the second look at the starting
\* sensor (line 814).
TimeoutStateUnchecked(s, i, low) ==
  IF s = SensorPin(Other(i)) THEN STATE_BOTH_SENSORS_ERROR ELSE ErrorOf(i)

\* The choice of the error state with STATE_REPLACE kept through a timeout.
TimeoutStateKeepingReplace(s, i, low) ==
  IF low[i] /\ s # STATE_REPLACE
  THEN IF s = SensorPin(Other(i)) THEN STATE_BOTH_SENSORS_ERROR ELSE ErrorOf(i)
  ELSE s

\* Lines 814-823: the choice of the error state after a timeout.
TimeoutState(s, i, low) ==
  IF low[i]
  THEN IF s = SensorPin(Other(i)) THEN STATE_BOTH_SENSORS_ERROR ELSE ErrorOf(i)
  ELSE s

\* ------------------------------------------------------------ actions
\* The state after setup (), with h the history: empty at power-up.  The
\* time each pin has held its level is followed from the start when
\* tracked, and never otherwise.
Start(h, tracked) ==
  /\ state = STATE_DEFAULT
  /\ subState = 0
  /\ writeIndex = Len(h) - 1
  /\ readIndex = IF h = <<>> THEN -1 ELSE 0
  /\ buttonLastState = [c \in Channels |-> LOW]
  /\ buttonState = NO_BUTTON_PRESSED
  /\ debounceElapsed = [c \in Channels |-> 0]
  /\ holdElapsed = 0
  /\ history = h
  /\ pc = "pollButtons"
  /\ index = 0
  /\ sensorTime = -1
  /\ busyElapsed = 0
  /\ button = [c \in Channels |-> LOW]
  /\ sensorLow = [c \in Channels |-> FALSE]
  /\ polled = FALSE
  /\ sampled = [c \in Channels |-> LOW]
  /\ rawStable = [c \in Channels |-> IF tracked THEN 0 ELSE Untracked]
  /\ fired = <<>>
  /\ settled = {}
  /\ gesture = <<>>
  /\ releasedEarly = FALSE
  /\ written = Len(h) - 1

Init == Start(<<>>, FALSE)

\* The gesture is over once buttonState is back to NO_BUTTON_PRESSED.
Over(g) ==
  IF g.buttonState = NO_BUTTON_PRESSED THEN [g EXCEPT !.gest = <<>>] ELSE g

\* The globals, and the bookkeeping a handler keeps, after a handler.
SetProg(g) ==
  /\ state' = g.state
  /\ subState' = g.subState
  /\ writeIndex' = g.writeIndex
  /\ readIndex' = g.readIndex
  /\ buttonLastState' = g.buttonLastState
  /\ buttonState' = g.buttonState
  /\ debounceElapsed' = g.debounceElapsed
  /\ holdElapsed' = g.holdElapsed
  /\ history' = g.history
  /\ gesture' = g.gest
  /\ releasedEarly' = (g.early /\ g.buttonState = BOTH_BUTTONS_PRESSED)
  /\ written' = IF g.writeIndex = -1 THEN -1 ELSE g.wr

\* Time passes: every difference the code computes grows by `by`.
Elapse(g, by) ==
  [g EXCEPT !.debounceElapsed =
              [c \in Channels |-> Advance(@[c], by, DEBOUNCE_TIME)],
            !.holdElapsed = Advance(@, by, BUTTON_HOLD_TIME)]

StableAfter(by) ==
  rawStable' = [c \in Channels |->
                  IF rawStable[c] = Untracked THEN Untracked
                  ELSE Advance(rawStable[c], by, DEBOUNCE_TIME)]

\* loop (), line 228: one call of pollButtons on the levels of the pins.
PollButtons ==
  /\ pc = "pollButtons"
  /\ LET g == pollButtons(G, button) IN
       /\ SetProg(g)
       /\ fired' = g.ev
       /\ settled' = g.acc
  /\ pc' = "pollSensors"
  /\ polled' = TRUE
  /\ sampled' = button
  /\ UNCHANGED <<index, sensorTime, busyElapsed, envVars, rawStable>>

\* measureSpeed returns speed to pollSensors, which stores it; the loop
\* goes on to the next cycle.  wait is the time a final delay () takes.
Return(s, speed, wait) ==
  /\ speed # NoSpeed /\ s = STATE_REPLACE /\ InRange(speed)
       => Len(history) < MaxHistory
  /\ SetProg(Elapse(StoreSpeed(Over([G EXCEPT !.state = s]), speed), wait))
  /\ StableAfter(wait)
  /\ pc' = "pollButtons"
  /\ index' = 0
  /\ sensorTime' = -1
  /\ busyElapsed' = 0
  /\ fired' = <<>>
  /\ settled' = {}
  /\ UNCHANGED <<envVars, polled, sampled>>

\* The for loop of measureSpeed has come to r: a busy-wait starts, or the
\* loop is over and lines 835-841 end the call.
Proceed(r) ==
  IF r.busy
  THEN /\ state' = r.state
       /\ index' = r.index
       /\ sensorTime' = r.sensorTime
       /\ busyElapsed' = 0
       /\ pc' = "busy"
       /\ fired' = <<>>
       /\ settled' = {}
       /\ gesture' = Over(G).gest
       /\ UNCHANGED <<subState, writeIndex, readIndex, buttonLastState,
                      buttonState, debounceElapsed, holdElapsed, history,
                      envVars, polled, sampled, rawStable, releasedEarly,
                      written>>
  ELSE Return(r.state, NoSpeed,
              IF r.sensorTime > 0 THEN DISPLAY_WAIT_TIME ELSE 0)

\* loop (), line 231: pollSensors up to the first busy-wait of measureSpeed.
PollSensors ==
  /\ pc = "pollSensors"
  /\ IF state \notin Measuring
     THEN /\ pc' = "pollButtons"
          /\ fired' = <<>>
          /\ settled' = {}
          /\ gesture' = Over(G).gest
          /\ UNCHANGED <<progVars, index, sensorTime, busyElapsed, envVars,
                         polled, sampled, rawStable, releasedEarly, written>>
     ELSE \E m \in MicrosAtTrigger :
            LET r0 == [busy |-> FALSE, state |-> state, index |-> 0,
                       sensorTime |-> -1]
            IN Proceed(ScanOne(ScanOne(r0, LEFT, sensorLow, m), RIGHT,
                               sensorLow, m))

\* The busy-wait with the travel time counted double when the right sensor
\* was the first to trigger.
BusyHitDirected ==
  /\ pc = "busy"
  /\ busyElapsed < MAX_MEASURE_TIME
  /\ sensorLow[Other(index)]
  /\ sensorTime' = IF index = LEFT THEN busyElapsed ELSE 2 * busyElapsed
  /\ pc' = "unblock"
  /\ UNCHANGED <<progVars, index, busyElapsed, envVars, ghostVars>>

\* Lines 797-801: the other sensor triggers inside the busy-wait.
BusyHit ==
  /\ pc = "busy"
  /\ busyElapsed < MAX_MEASURE_TIME
  /\ sensorLow[Other(index)]
  /\ sensorTime' = busyElapsed
  /\ pc' = "unblock"
  /\ UNCHANGED <<progVars, index, busyElapsed, envVars, ghostVars>>

\* Lines 797 and 811-824: the busy-wait times out; the loop goes on.
BusyTimeout ==
  /\ pc = "busy"
  /\ busyElapsed >= MAX_MEASURE_TIME
  /\ \E m \in MicrosAtTrigger :
       LET r1 == [busy |-> FALSE,
                  state |-> TimeoutState(state, index, sensorLow),
                  index |-> index,
                  sensorTime |-> IF sensorLow[index] THEN -1 ELSE sensorTime]
       IN Proceed(IF index = LEFT THEN ScanOne(r1, RIGHT, sensorLow, m)
                  ELSE r1)

\* Lines 805-807: the wait for the second sensor to clear is over.
Unblocked ==
  /\ pc = "unblock"
  /\ ~sensorLow[Other(index)]
  /\ \E reading \in PotReadings :
       Return(state, SpeedOf(getSensorDistance(reading), sensorTime), 0)

\* A quantum of time passes.  Between two cycles of the loop at most one
\* passes (a cycle takes far less); inside measureSpeed time passes for as
\* long as the loop being run goes on.
Tick ==
  /\ \/ pc = "pollButtons" /\ polled
     \/ pc = "busy" /\ busyElapsed < MAX_MEASURE_TIME
                    /\ ~sensorLow[Other(index)]
     \/ pc = "unblock" /\ sensorLow[Other(index)]
  /\ debounceElapsed' = Elapse(G, TickMillis).debounceElapsed
  /\ holdElapsed' = Elapse(G, TickMillis).holdElapsed
  /\ StableAfter(TickMillis)
  /\ busyElapsed' = IF pc = "busy" THEN busyElapsed + TickMicros
                    ELSE busyElapsed
  /\ polled' = IF pc = "pollButtons" THEN FALSE ELSE polled
  /\ UNCHANGED <<state, subState, writeIndex, readIndex, buttonLastState,
                 buttonState, history, pc, index, sensorTime, envVars,
                 sampled, fired, settled, gesture, releasedEarly, written>>

\* The user moves a button.  The loop reads the pins far more often than
\* once a quantum: the pin had its old level at the last read (sampled), and
\* no quantum has passed since that read unless measureSpeed held the loop.
ButtonChange(c) ==
  /\ pc = "pollButtons"
  /\ polled
  /\ button[c] = sampled[c]
  /\ button' = [button EXCEPT ![c] = 1 - @]
  /\ rawStable' = [rawStable EXCEPT ![c] = IF @ = Untracked THEN @ ELSE 0]
  /\ releasedEarly' =
       IF /\ buttonState = BOTH_BUTTONS_PRESSED
          /\ holdElapsed < BUTTON_HOLD_TIME
          /\ \A d \in Channels : button'[d] = LOW
       THEN TRUE ELSE releasedEarly
  /\ UNCHANGED <<progVars, measVars, sensorLow, polled, sampled, fired,
                 settled, gesture, written>>

\* An object enters or leaves the beam of a sensor.
SensorChange(c) ==
  /\ pc \in {"pollSensors", "busy", "unblock"}
  /\ sensorLow' = [sensorLow EXCEPT ![c] = ~@]
  /\ UNCHANGED <<progVars, measVars, button, ghostVars>>

\* No gesture is under way: both buttons are up and have been read so.
UserIdle ==
  /\ buttonState = NO_BUTTON_PRESSED
  /\ \A c \in Channels : button[c] = LOW /\ sampled[c] = LOW

Program ==
  \/ PollButtons
  \/ PollSensors
  \/ BusyHit
  \/ BusyTimeout
  \/ Unblocked

\* The decoder has accepted the level pin c has: buttonLastState [c] holds
\* the level it waits for next, the opposite one.
Accepted(c) == buttonLastState[c] # button[c]

\* A deliberate move of button c: its last move has been accepted, and so
\* has the other button's, unless the two move together.
Deliberate(c) ==
  /\ Accepted(c)
  /\ Accepted(Other(c)) \/ button[Other(c)] # sampled[Other(c)]

SensorsClear == \A c \in Channels : ~sensorLow[c]

\* Travel times, in microseconds, of the objects that reach the second
\* sensor after a busy-wait has begun.
PassTimes == {TickMicros, 2 * TickMicros}

\* An object reaches the sensor a busy-wait polls after one of PassTimes.
Passing(c) ==
  pc = "busy" /\ c = Other(index) /\ ~sensorLow[c]
    => busyElapsed \in PassTimes

\* The device in use: deliberate gestures made while no object is at the
\* sensors, and objects that pass the sensors while no button is touched.
Next ==
  \/ Program
  \/ Tick
  \/ \E c \in Channels : Deliberate(c) /\ SensorsClear /\ ButtonChange(c)
  \/ \E c \in Channels : UserIdle /\ Passing(c) /\ SensorChange(c)

Spec == Init /\ [][Next]_vars

\* The buttons alone: no object ever passes a sensor.
NextButtons ==
  \/ PollButtons
  \/ PollSensors
  \/ Tick
  \/ \E c \in Channels : ButtonChange(c)

\* The device after one stored measurement, back at the top of
\* the loop: the history menu is within reach of the buttons.
InitMeasured ==
  Start(<<SpeedOf(getSensorDistance(512), TickMicros)>>, FALSE)

SpecButtons == InitMeasured /\ [][NextButtons]_vars

\* The sensors alone: no button is ever touched.
NextSensors ==
  \/ Program
  \/ Tick
  \/ \E c \in Channels : SensorChange(c)

SpecSensors == Init /\ [][NextSensors]_vars

\* The same, with the program always running and time always passing.
FairSensors == SpecSensors /\ SF_vars(Program) /\ SF_vars(Tick)

\* The buttons, with the time each pin has held its level followed, and
\* an object that stays at the left sensor and holds the loop.
InitTracked == Start(<<>>, TRUE)

NextDebounce ==
  \/ PollButtons
  \/ PollSensors
  \/ BusyTimeout
  \/ Tick
  \/ \E c \in Channels : ButtonChange(c)
  \/ UserIdle /\ SensorChange(LEFT)

SpecDebounce == InitTracked /\ [][NextDebounce]_vars

\* An object reaches the sensor a busy-wait polls one quantum after the
\* busy-wait has begun.
Prompt(c) ==
  pc = "busy" /\ c = Other(index) /\ ~sensorLow[c] => busyElapsed = TickMicros

\* The buttons used while objects are at the sensors: deliberate gestures
\* at any time, a sensor blocked or cleared at any time.
NextBlocked ==
  \/ Program
  \/ Tick
  \/ \E c \in Channels : Deliberate(c) /\ ButtonChange(c)
  \/ \E c \in Channels : Prompt(c) /\ SensorChange(c)

SpecBlocked == Init /\ [][NextBlocked]_vars

\* Travel times, in microseconds, of the first object of a run.
TransitTimes == {1, 6000, 6001, 100000, 250000, 1499999}

\* The device at its first measurement: the first poll of the buttons is
\* over, the left sensor has triggered, the right one has triggered one of
\* TransitTimes later, and measureSpeed waits for it to clear.
AtFirstTransit(e) ==
  /\ state = STATE_DEFAULT
  /\ subState = 0
  /\ writeIndex = -1
  /\ readIndex = -1
  /\ buttonLastState = [c \in Channels |-> LOW]
  /\ buttonState = NO_BUTTON_PRESSED
  /\ debounceElapsed =
       [c \in Channels |-> Advance(0, e \div 1000, DEBOUNCE_TIME)]
  /\ holdElapsed = Advance(0, e \div 1000, BUTTON_HOLD_TIME)
  /\ history = <<>>
  /\ pc = "unblock"
  /\ index = LEFT
  /\ sensorTime = e
  /\ busyElapsed = e
  /\ button = [c \in Channels |-> LOW]
  /\ sensorLow = [c \in Channels |-> TRUE]
  /\ polled = TRUE
  /\ sampled = [c \in Channels |-> LOW]
  /\ rawStable = [c \in Channels |-> Untracked]
  /\ fired = <<>>
  /\ settled = {}
  /\ gesture = <<>>
  /\ releasedEarly = FALSE
  /\ written = -1

InitTransit == \E e \in TransitTimes : AtFirstTransit(e)

SpecTransit == InitTransit /\ [][NextSensors]_vars

\* Readings of the distance potentiometer over its whole range.
CalibrationReadings == {0, 256, 512, 1023}

\* An object that takes one second from sensor to sensor: its speed in mm/s
\* is the distance in mm.
OneSecond == 1000000

\* Lines 805-807 with the distance potentiometer at any of readings.
UnblockedAt(readings) ==
  /\ pc = "unblock"
  /\ ~sensorLow[Other(index)]
  /\ \E reading \in readings :
       Return(state, SpeedOf(getSensorDistance(reading), sensorTime), 0)

\* The sensors alone, the distance potentiometer being turned between the
\* measurements.
NextCalibrate ==
  \/ PollButtons
  \/ PollSensors
  \/ BusyHit
  \/ BusyTimeout
  \/ UnblockedAt(CalibrationReadings)
  \/ Tick
  \/ \E c \in Channels : SensorChange(c)

SpecCalibrate == AtFirstTransit(OneSecond) /\ [][NextCalibrate]_vars

\* Values of micros (), an unsigned 32-bit counter, as a half (0 for the
\* values up to 2^31 - 1, 1 for those from 2^31 on) and the rest: 0, one
\* second and 3,000,000,000 microseconds after the counter started.
ClockReadings ==
  {[half |-> 0, low |-> 0],
   [half |-> 0, low |-> 1000000],
   [half |-> 1, low |-> 852516352]}

\* Line 794: the conversion of the unsigned long micros () to the long
\* sensorTime.
AsLong(u) == IF u.half = 0 THEN u.low ELSE u.low - 2147483647 - 1

\* Line 835: the test that decides whether "unclear reading." is shown.
UnclearReading(t) == t > 0

\* pollSensors up to the first busy-wait, the clock reading one of clock.
PollSensorsAt(clock) ==
  /\ pc = "pollSensors"
  /\ IF state \notin Measuring
     THEN /\ pc' = "pollButtons"
          /\ fired' = <<>>
          /\ settled' = {}
          /\ gesture' = Over(G).gest
          /\ UNCHANGED <<progVars, index, sensorTime, busyElapsed, envVars,
                         polled, sampled, rawStable, releasedEarly, written>>
     ELSE \E u \in clock :
            LET r0 == [busy |-> FALSE, state |-> state, index |-> 0,
                       sensorTime |-> -1]
            IN Proceed(ScanOne(ScanOne(r0, LEFT, sensorLow, AsLong(u)), RIGHT,
                               sensorLow, AsLong(u)))

\* The timeout of the busy-wait, the clock reading one of clock.
BusyTimeoutAt(clock) ==
  /\ pc = "busy"
  /\ busyElapsed >= MAX_MEASURE_TIME
  /\ \E u \in clock :
       LET r1 == [busy |-> FALSE,
                  state |-> TimeoutState(state, index, sensorLow),
                  index |-> index,
                  sensorTime |-> IF sensorLow[index] THEN -1 ELSE sensorTime]
       IN Proceed(IF index = LEFT
                  THEN ScanOne(r1, RIGHT, sensorLow, AsLong(u))
                  ELSE r1)

\* The sensors alone, at any time of the microsecond clock.
NextClock ==
  \/ PollButtons
  \/ PollSensorsAt(ClockReadings)
  \/ BusyHit
  \/ BusyTimeoutAt(ClockReadings)
  \/ Unblocked
  \/ Tick
  \/ \E c \in Channels : SensorChange(c)

SpecClock == Init /\ [][NextClock]_vars

\* ------------------------------------------------------------ history
\* C1: in every reachable state the history holds at most HISTORY_SIZE
\* entries, replace flows answered or abandoned included.
C1_HistoryWithinCapacity == Len(history) <= HISTORY_SIZE

\* C2: writeIndex is -1 when the history is empty, and otherwise the index
\* of the slot that received the most recent stored measurement.
C2_WriteIndexIsLastWritten ==
  /\ history = <<>> => writeIndex = -1
  /\ history # <<>> => writeIndex = written

\* C3: in every reachable state -1 <= readIndex <= history.size () - 1.
C3_ReadIndexInRange == readIndex >= -1 /\ readIndex <= Len(history) - 1

\* The cursor is on the last entry of a history that a single delete has
\* shortened below the slot writeIndex names.
C3_Witness ==
  /\ state = STATE_HISTORY
  /\ history # <<>>
  /\ readIndex = Len(history) - 1
  /\ writeIndex >= Len(history)

\* ------------------------------------------------------------ gestures
Names(events) == [k \in 1..Len(events) |-> events[k].name]

\* C4: a gesture triggers at most one of the actions short-press, hold and
\* both-released, and a short-press action never runs once more than
\* BUTTON_HOLD_TIME has passed since the press settled.
C4_OneActionPerGesture ==
  /\ Len(gesture) <= 1
  /\ \A k \in 1..Len(fired) :
       fired[k].name \in {"left", "right"}
         => fired[k].hold <= BUTTON_HOLD_TIME

\* The right button, held in the history menu until the hold action chose
\* REPLACE, has just been released: the release settles and runs nothing.
C4_Witness ==
  /\ pc = "pollSensors"
  /\ state = STATE_REPLACE
  /\ RIGHT \in settled
  /\ button[RIGHT] = LOW
  /\ holdElapsed > BUTTON_HOLD_TIME
  /\ fired = <<>>
  /\ gesture = <<>>

\* C5, as stated: when both buttons of a both-pressed gesture have gone up
\* before the hold time, the poll that ends the gesture has run
\* bothButtonsPressed exactly once and no single-button action.
C5_BothReleasedBeforeHold ==
  [][ /\ PollButtons
      /\ buttonState = BOTH_BUTTONS_PRESSED
      /\ releasedEarly
      /\ buttonState' # BOTH_BUTTONS_PRESSED
      => Names(fired') = <<"both">> ]_vars

\* C5, amended: when a release of a both-pressed gesture settles at a poll
\* no later than BUTTON_HOLD_TIME after the last settle with both levels
\* HIGH, no action has run for the gesture before, and that poll runs
\* bothButtonsPressed exactly once and no single-button action.
C5_BothReleaseAccepted ==
  [][ /\ PollButtons
      /\ buttonState = BOTH_BUTTONS_PRESSED
      /\ holdElapsed <= BUTTON_HOLD_TIME
      /\ \E c \in Channels : button[c] = LOW
      /\ settled' # {}
      => /\ gesture = <<>>
         /\ Names(fired') = <<"both">> ]_vars

\* Both buttons went up together before the hold time; both releases have
\* settled at the same poll, which ran bothButtonsPressed once.
C5_Witness ==
  /\ pc = "pollSensors"
  /\ buttonState = NO_BUTTON_PRESSED
  /\ holdElapsed <= BUTTON_HOLD_TIME
  /\ settled = {LEFT, RIGHT}
  /\ \A c \in Channels : button[c] = LOW
  /\ Names(fired) = <<"both">>
  /\ gesture = <<"both">>

\* ------------------------------------------------------------ debounce
\* C6: the gesture rules are evaluated for a channel only when its raw
\* level has stayed unchanged for more than DEBOUNCE_TIME milliseconds.
C6_AcceptedOnlyWhenStable ==
  \A c \in settled : rawStable[c] > DEBOUNCE_TIME

\* ------------------------------------------------------------ sensors
\* C7: every call of measureSpeed returns: whenever a busy-wait or the wait
\* for the second sensor to clear is under way, the loop gets back to
\* pollButtons.
C7_MeasureSpeedReturns ==
  (pc \in {"busy", "unblock"}) ~> (pc = "pollButtons")

\* C8, as stated: a timeout with channel c still triggered sets c's error
\* state, and in c's error state a poll that reads c at or above the
\* threshold sets the state back to DEFAULT.
C8_ErrorSetAndCleared ==
  [][ /\ BusyTimeout /\ sensorLow[index] => state' = ErrorOf(index)
      /\ \A c \in Channels :
           PollSensors /\ state = ErrorOf(c) /\ ~sensorLow[c]
             => state' = STATE_DEFAULT ]_vars

\* C8, amended: the same, where a poll in the right sensor's error state
\* sets the state back to DEFAULT when it also reads the left sensor at or
\* above the threshold.
C8_ErrorSetAndClearedUnlessLeftTriggers ==
  [][ /\ BusyTimeout /\ sensorLow[index] => state' = ErrorOf(index)
      /\ \A c \in Channels :
           /\ PollSensors
           /\ state = ErrorOf(c)
           /\ ~sensorLow[c]
           /\ c = RIGHT => ~sensorLow[LEFT]
           => state' = STATE_DEFAULT ]_vars

\* The right sensor's error state, with both sensors clear at the poll.
C8_Witness ==
  /\ pc = "pollSensors"
  /\ state = STATE_RIGHT_SENSOR_ERROR
  /\ SensorsClear

\* C9: a timeout with the starting sensor still triggered and the other
\* sensor triggered as well sets BOTH_SENSORS_ERROR.
C9_BothSensorsError ==
  [][ BusyTimeout /\ sensorLow[index] /\ sensorLow[Other(index)]
        => state' = STATE_BOTH_SENSORS_ERROR ]_vars

\* The state the for loop of measureSpeed leaves when the call is entered
\* in state s and reads neither sensor below the threshold.
ClearPoll(s) ==
  LET r0 == [busy |-> FALSE, state |-> s, index |-> 0, sensorTime |-> -1]
  IN ScanOne(ScanOne(r0, LEFT, sensorLow, 0), RIGHT, sensorLow, 0).state

C11_ButtonsIgnoredInErrorState ==
  [][ \A c \in Channels :
        PollButtons /\ state = ErrorOf(c) /\ sensorLow[c]
          => state' = state ]_vars

\* C11, amended: in the error state of a sensor that is blocked, no step of
\* pollSensors that finds the sensor still blocked changes the state, and a
\* run of pollButtons changes it only by the one action it runs, as in
\* DEFAULT: left short press to HISTORY, right short press to SETTINGS,
\* both-released to DEFAULT.
C11_ErrorStateLeftByButtonsOnly ==
  [][ \A c \in Channels :
        state = ErrorOf(c) /\ sensorLow[c] =>
          /\ PollButtons =>
               /\ Len(fired') <= 1
               /\ fired' = <<>> => state' = state
               /\ Names(fired') = <<"left">> => state' = STATE_HISTORY
               /\ Names(fired') = <<"right">> => state' = STATE_SETTINGS
               /\ Names(fired') = <<"both">> => state' = STATE_DEFAULT
               /\ \A k \in 1..Len(fired') :
                    fired'[k].name \in {"left", "right", "both"}
          /\ PollSensors \/ BusyHit \/ Unblocked \/ (BusyTimeout /\ index = c)
               => state' = state ]_vars

\* The right sensor is blocked and its error state shown; the right button
\* has been pressed and let go, and the next poll accepts the release.
C11_Witness ==
  /\ pc = "pollButtons"
  /\ state = STATE_RIGHT_SENSOR_ERROR
  /\ sensorLow[RIGHT]
  /\ buttonState = RIGHT_BUTTON_PRESSED
  /\ button[RIGHT] = LOW
  /\ buttonLastState[RIGHT] = LOW
  /\ debounceElapsed[RIGHT] > DEBOUNCE_TIME
  /\ holdElapsed <= BUTTON_HOLD_TIME

\* ------------------------------------------------------------ storing
\* C12: when measureSpeed returns a speed inside (MIN_SPEED, MAX_SPEED) in
\* DEFAULT or a sensor-error state, writeIndex advances by one, wrapping
\* from HISTORY_SIZE - 1 to 0, and the speed is stored in slot writeIndex:
\* appended while the history is not full, overwriting that slot when full.
C12_StoredAtNextSlot ==
  [][ \A reading \in PotReadings :
        LET speed == SpeedOf(getSensorDistance(reading), sensorTime) IN
          /\ Unblocked
          /\ InRange(speed)
          /\ state \in Measuring \ {STATE_REPLACE}
          => /\ writeIndex' = (writeIndex + 1) % HISTORY_SIZE
             /\ history' = IF Len(history) < HISTORY_SIZE
                           THEN Append(history, speed)
                           ELSE [history EXCEPT ![writeIndex' + 1] = speed]
             /\ LLget(history', writeIndex') = speed ]_vars

\* The state measureSpeed leaves when its loop goes on after a timeout and
\* starts no further busy-wait.
AfterTimeout ==
  LET r1 == [busy |-> FALSE, state |-> TimeoutState(state, index, sensorLow),
             index |-> index, sensorTime |-> -1]
  IN IF index = LEFT THEN ScanOne(r1, RIGHT, sensorLow, 0).state ELSE r1.state

\* C13: a result of measureSpeed that is not inside (MIN_SPEED, MAX_SPEED)
\* is discarded: pollSensors leaves history, writeIndex and readIndex as
\* they were and the state as measureSpeed left it.
C13_OutOfRangeDiscarded ==
  [][ /\ \A reading \in PotReadings :
           /\ Unblocked
           /\ ~InRange(SpeedOf(getSensorDistance(reading), sensorTime))
           => UNCHANGED <<history, writeIndex, readIndex, state>>
      /\ PollSensors /\ pc' = "pollButtons"
           => /\ UNCHANGED <<history, writeIndex, readIndex>>
              /\ state' = IF state \in Measuring THEN ClearPoll(state)
                          ELSE state
      /\ BusyTimeout /\ pc' = "pollButtons"
           => /\ UNCHANGED <<history, writeIndex, readIndex>>
              /\ state' = AfterTimeout ]_vars

\* Both sensors triggered at once while a replacement was awaited: measureSpeed
\* has measured a travel time of 0 and returns a speed above MAX_SPEED.
C13_Witness ==
  /\ pc = "unblock"
  /\ sensorTime = 0
  /\ ~sensorLow[Other(index)]
  /\ state = STATE_REPLACE
  /\ history # <<>>

\* ------------------------------------------------------------ replace
\* C14: an in-range speed measured in REPLACE is inserted at position
\* readIndex, in front of the entry it may supersede, which stays in the
\* history; the state becomes REPLACE_QUESTION, writeIndex and readIndex
\* stay, and the history is not touched while the question is open.
C14_ReplacementStaged ==
  [][ /\ \A reading \in PotReadings :
           LET speed == SpeedOf(getSensorDistance(reading), sensorTime) IN
             Unblocked /\ state = STATE_REPLACE /\ InRange(speed)
               => /\ readIndex >= 0 /\ readIndex < Len(history)
                  /\ history' = SubSeq(history, 1, readIndex) \o <<speed>>
                                  \o SubSeq(history, readIndex + 1, Len(history))
                  /\ LLget(history', readIndex) = speed
                  /\ LLget(history', readIndex + 1) = LLget(history, readIndex)
                  /\ state' = STATE_REPLACE_QUESTION
                  /\ UNCHANGED <<writeIndex, readIndex>>
      /\ state = STATE_REPLACE_QUESTION /\ state' = STATE_REPLACE_QUESTION
           => UNCHANGED <<history, readIndex, writeIndex>> ]_vars

\* The question is open on a full history: the new speed stands at
\* readIndex, in front of the different speed it may supersede.
C14_Witness ==
  /\ state = STATE_REPLACE_QUESTION
  /\ pc = "pollButtons"
  /\ Len(history) = HISTORY_SIZE + 1
  /\ readIndex = HISTORY_SIZE - 1
  /\ LLget(history, readIndex) # LLget(history, readIndex + 1)

\* C15, as stated: in REPLACE_QUESTION a left short press removes the newly
\* measured value, so that the original entry stays at readIndex, and a
\* right short press removes the superseded original, so that the new
\* value stays at readIndex; both go to HISTORY.
C15_LeftRejectsRightAccepts ==
  [][ PollButtons /\ state = STATE_REPLACE_QUESTION =>
        /\ Names(fired') = <<"left">>
             => /\ history' = LLremove(history, readIndex)
                /\ state' = STATE_HISTORY
        /\ Names(fired') = <<"right">>
             => /\ history' = LLremove(history, readIndex + 1)
                /\ state' = STATE_HISTORY ]_vars

\* C15, amended: in REPLACE_QUESTION a left short press accepts the
\* replacement (the superseded original, at readIndex + 1, is removed and
\* the new value stays at readIndex) and a right short press rejects it
\* (the new value is removed and the original is back at readIndex); both
\* go to HISTORY and leave readIndex and writeIndex as they were.
C15_LeftAcceptsRightRejects ==
  [][ PollButtons /\ state = STATE_REPLACE_QUESTION =>
        /\ Names(fired') = <<"left">>
             => /\ history' = LLremove(history, readIndex + 1)
                /\ Len(history') = Len(history) - 1
                /\ LLget(history', readIndex) = LLget(history, readIndex)
                /\ state' = STATE_HISTORY
                /\ UNCHANGED <<readIndex, writeIndex>>
        /\ Names(fired') = <<"right">>
             => /\ history' = LLremove(history, readIndex)
                /\ Len(history') = Len(history) - 1
                /\ LLget(history', readIndex) = LLget(history, readIndex + 1)
                /\ state' = STATE_HISTORY
                /\ UNCHANGED <<readIndex, writeIndex>> ]_vars

\* The question is open between two different speeds; the left button has
\* been pressed and let go, and the next poll accepts the release.
C15_Witness ==
  /\ pc = "pollButtons"
  /\ state = STATE_REPLACE_QUESTION
  /\ LLget(history, readIndex) # LLget(history, readIndex + 1)
  /\ buttonState = LEFT_BUTTON_PRESSED
  /\ button[LEFT] = LOW
  /\ debounceElapsed[LEFT] > DEBOUNCE_TIME
  /\ holdElapsed <= BUTTON_HOLD_TIME

\* ------------------------------------------------------------ delete
\* C16: a left short press in REMOVE with readIndex below 0 finds readIndex
\* at -1, empties the history, leaves readIndex and writeIndex at -1 and
\* goes to HISTORY.
C16_DeleteAllClears ==
  [][ /\ PollButtons
      /\ state = STATE_REMOVE
      /\ readIndex < 0
      /\ Names(fired') = <<"left">>
      => /\ readIndex = -1
         /\ history' = <<>>
         /\ readIndex' = -1
         /\ writeIndex' = -1
         /\ state' = STATE_HISTORY ]_vars

\* "Remove all" has been chosen on a full history and waits for its answer;
\* the left button has been pressed and let go, and the next poll accepts
\* the release.
C16_Witness ==
  /\ pc = "pollButtons"
  /\ state = STATE_REMOVE
  /\ readIndex = -1
  /\ Len(history) >= HISTORY_SIZE
  /\ writeIndex >= 0
  /\ buttonState = LEFT_BUTTON_PRESSED
  /\ button[LEFT] = LOW
  /\ debounceElapsed[LEFT] > DEBOUNCE_TIME
  /\ holdElapsed <= BUTTON_HOLD_TIME

\* C17: a left short press in REMOVE with readIndex at or above 0 removes
\* the entry at readIndex and no other, keeps the others in their order,
\* moves readIndex from the last entry to the new last entry (-1 when the
\* history is now empty) and leaves it alone otherwise, and goes to HISTORY.
C17_DeleteOneEntry ==
  [][ /\ PollButtons
      /\ state = STATE_REMOVE
      /\ readIndex >= 0
      /\ Names(fired') = <<"left">>
      => /\ readIndex < Len(history)
         /\ history' = SubSeq(history, 1, readIndex)
                         \o SubSeq(history, readIndex + 2, Len(history))
         /\ Len(history') = Len(history) - 1
         /\ readIndex' = IF readIndex = Len(history) - 1
                         THEN Len(history) - 2 ELSE readIndex
         /\ readIndex' >= -1 /\ readIndex' <= Len(history') - 1
         /\ state' = STATE_HISTORY ]_vars

\* The removal of the first of several entries, followed by a different
\* speed, waits for its answer; the left button has been pressed and let
\* go, and the next poll accepts the release.
C17_Witness ==
  /\ pc = "pollButtons"
  /\ state = STATE_REMOVE
  /\ readIndex = 0
  /\ Len(history) >= 2
  /\ history[1] # history[2]
  /\ buttonState = LEFT_BUTTON_PRESSED
  /\ button[LEFT] = LOW
  /\ debounceElapsed[LEFT] > DEBOUNCE_TIME
  /\ holdElapsed <= BUTTON_HOLD_TIME

\* ------------------------------------------------------------ browsing
\* C18: in HISTORY a left short press at readIndex -1 moves readIndex to
\* size - 1, and a right short press at readIndex size - 1 moves it to -1.
C18_ReadIndexCyclesThroughAll ==
  [][ PollButtons /\ state = STATE_HISTORY =>
        /\ Names(fired') = <<"left">> /\ readIndex = -1
             => readIndex' = Len(history) - 1
        /\ Names(fired') = <<"right">> /\ readIndex = Len(history) - 1
             => readIndex' = -1 ]_vars

\* ------------------------------------------------------------ both buttons
\* C19: a poll that runs bothButtonsPressed, and nothing else, in
\* HISTORY_MENU or in REPLACE leaves the device in HISTORY.
C19_BothReleasedBackToHistory ==
  [][ /\ PollButtons
      /\ state \in {STATE_HISTORY_MENU, STATE_REPLACE}
      /\ Names(fired') = <<"both">>
      => state' = STATE_HISTORY ]_vars

\* C20: in HISTORY with readIndex at or above 0, the first poll after both
\* buttons have been pressed for more than BUTTON_HOLD_TIME opens
\* HISTORY_MENU, by the hold action alone and whether or not a button has
\* gone up, and ends the gesture when it accepts no new level; with the
\* gesture ended, no poll of the buttons leaves HISTORY_MENU or runs an
\* action, whatever levels it accepts: the release changes nothing.
C20_BothHoldOpensMenu ==
  [][ /\ /\ PollButtons
         /\ state = STATE_HISTORY
         /\ readIndex >= 0
         /\ buttonState = BOTH_BUTTONS_PRESSED
         /\ holdElapsed > BUTTON_HOLD_TIME
         => /\ state' = STATE_HISTORY_MENU
            /\ Names(fired') = <<"bothHold">>
            /\ settled' = {} => buttonState' = NO_BUTTON_PRESSED
      /\ /\ PollButtons
         /\ state = STATE_HISTORY_MENU
         /\ buttonState = NO_BUTTON_PRESSED
         => /\ state' = STATE_HISTORY_MENU
            /\ fired' = <<>> ]_vars

\* Both buttons are still down: the poll after the hold time has opened the
\* menu, accepted no level and ended the gesture.
C20_Witness ==
  /\ pc = "pollSensors"
  /\ state = STATE_HISTORY_MENU
  /\ Names(fired) = <<"bothHold">>
  /\ settled = {}
  /\ buttonState = NO_BUTTON_PRESSED
  /\ \A c \in Channels : button[c] = HIGH /\ sampled[c] = HIGH

\* ------------------------------------------------------------ right hold
\* C21, as stated: in HISTORY, the first poll after the right button alone
\* has been pressed for more than BUTTON_HOLD_TIME opens HISTORY_MENU.
C21_RightHoldOpensMenu ==
  [][ /\ PollButtons
      /\ state = STATE_HISTORY
      /\ buttonState = RIGHT_BUTTON_PRESSED
      /\ holdElapsed > BUTTON_HOLD_TIME
      /\ button[LEFT] = LOW
      => state' = STATE_HISTORY_MENU ]_vars

\* C21, amended: in HISTORY, the first poll after the right button alone
\* has been pressed for more than BUTTON_HOLD_TIME ends the gesture and
\* does nothing else: the state stays HISTORY, no action runs, and the
\* history, the cursors and the substate are as before.
C21_RightHoldInHistoryIgnored ==
  [][ /\ PollButtons
      /\ state = STATE_HISTORY
      /\ buttonState = RIGHT_BUTTON_PRESSED
      /\ holdElapsed > BUTTON_HOLD_TIME
      /\ button[LEFT] = LOW
      => /\ state' = STATE_HISTORY
         /\ fired' = <<>>
         /\ buttonState' = NO_BUTTON_PRESSED
         /\ UNCHANGED <<history, readIndex, writeIndex, subState>> ]_vars

\* In HISTORY on an entry, the right button alone has been down for more
\* than BUTTON_HOLD_TIME and is still down at the poll to come.
C21_Witness ==
  /\ pc = "pollButtons"
  /\ state = STATE_HISTORY
  /\ readIndex >= 0
  /\ buttonState = RIGHT_BUTTON_PRESSED
  /\ holdElapsed > BUTTON_HOLD_TIME
  /\ button[RIGHT] = HIGH
  /\ button[LEFT] = LOW

\* C22: in HISTORY_MENU the first poll after the right button has been
\* pressed for more than BUTTON_HOLD_TIME runs the hold action, once and as
\* the only action of the gesture: REPLACE for HISTORY_REPLACE, REMOVE for
\* HISTORY_REMOVE, REMOVE with readIndex -1 for HISTORY_REMOVE_ALL, and
\* HISTORY for every other entry; nothing else of the history, the cursors
\* and the substate changes.  No hold action runs at any other poll.
C22_RightHoldRunsEntry ==
  [][ /\ /\ PollButtons
         /\ state = STATE_HISTORY_MENU
         /\ buttonState = RIGHT_BUTTON_PRESSED
         /\ holdElapsed > BUTTON_HOLD_TIME
         => /\ Names(fired') = <<"rightHold">>
            /\ gesture = <<>>
            /\ state' = CASE subState = HISTORY_REPLACE -> STATE_REPLACE
                          [] subState = HISTORY_REMOVE -> STATE_REMOVE
                          [] subState = HISTORY_REMOVE_ALL -> STATE_REMOVE
                          [] OTHER -> STATE_HISTORY
            /\ readIndex' = IF subState = HISTORY_REMOVE_ALL THEN -1
                            ELSE readIndex
            /\ UNCHANGED <<history, writeIndex, subState>>
      /\ /\ PollButtons
         /\ \E k \in 1..Len(fired') : fired'[k].name = "rightHold"
         => /\ state = STATE_HISTORY_MENU
            /\ buttonState = RIGHT_BUTTON_PRESSED
            /\ holdElapsed > BUTTON_HOLD_TIME ]_vars

\* "Remove all" has just been chosen by a hold of the right button, which
\* is still down: the cursor is on "all" and the history still has entries.
C22_Witness ==
  /\ pc = "pollSensors"
  /\ state = STATE_REMOVE
  /\ subState = HISTORY_REMOVE_ALL
  /\ Names(fired) = <<"rightHold">>
  /\ readIndex = -1
  /\ history # <<>>
  /\ button[RIGHT] = HIGH

\* ------------------------------------------------------------ state table
\* C23: a poll of the buttons in DEFAULT runs at most one action and
\* changes the state by it alone: a left short press goes to HISTORY, a
\* right short press to SETTINGS, both-released stays in DEFAULT, and a
\* poll that runs no action, the one at the end of a hold of the right
\* button included, stays in DEFAULT.
C23_DefaultRow ==
  [][ PollButtons /\ state = STATE_DEFAULT =>
        /\ Len(fired') <= 1
        /\ \A k \in 1..Len(fired') :
             fired'[k].name \in {"left", "right", "both"}
        /\ Names(fired') = <<"left">> => state' = STATE_HISTORY
        /\ Names(fired') = <<"right">> => state' = STATE_SETTINGS
        /\ Names(fired') = <<"both">> => state' = STATE_DEFAULT
        /\ fired' = <<>> => state' = STATE_DEFAULT
        /\ buttonState = RIGHT_BUTTON_PRESSED
             /\ holdElapsed > BUTTON_HOLD_TIME
             => fired' = <<>> /\ state' = STATE_DEFAULT
        /\ UNCHANGED <<history, readIndex, writeIndex>> ]_vars

\* A right short press has just moved the device from DEFAULT to the first
\* page of SETTINGS.
C23_Witness ==
  /\ pc = "pollSensors"
  /\ state = STATE_SETTINGS
  /\ subState = 0
  /\ Names(fired) = <<"right">>
  /\ button[RIGHT] = LOW

\* C24: in SETTINGS the substate is within 0..3; a left short press takes
\* one from it unless it is 0, a right short press adds one unless it is 3,
\* and both stay in SETTINGS, as does a poll that runs no action; the only
\* step that leaves SETTINGS is a poll that runs bothButtonsPressed, and
\* it goes to DEFAULT.
C24_SettingsRow ==
  [][ state = STATE_SETTINGS =>
        /\ subState >= 0 /\ subState <= 3
        /\ PollButtons =>
             /\ Names(fired') = <<"left">>
                  => /\ state' = STATE_SETTINGS
                     /\ subState' = IF subState > 0 THEN subState - 1 ELSE 0
             /\ Names(fired') = <<"right">>
                  => /\ state' = STATE_SETTINGS
                     /\ subState' = IF subState < 3 THEN subState + 1 ELSE 3
             /\ fired' = <<>> => UNCHANGED <<state, subState>>
        /\ state' # STATE_SETTINGS
             => /\ PollButtons
                /\ Names(fired') = <<"both">>
                /\ state' = STATE_DEFAULT ]_vars

\* A right short press in SETTINGS has just reached, or found, the last
\* page.
C24_Witness ==
  /\ pc = "pollSensors"
  /\ state = STATE_SETTINGS
  /\ subState = 3
  /\ Names(fired) = <<"right">>

\* ------------------------------------------------------------ gating
\* C25: a call of pollSensors in SETTINGS, HISTORY, HISTORY_MENU,
\* REPLACE_QUESTION or REMOVE returns without a measurement and changes
\* neither the state nor the history nor a cursor, whatever the sensors
\* read; a busy-wait is started in DEFAULT, REPLACE and the sensor-error
\* states only.
C25_SensorsGated ==
  [][ /\ /\ PollSensors
         /\ state \in {STATE_SETTINGS, STATE_HISTORY, STATE_HISTORY_MENU,
                       STATE_REPLACE_QUESTION, STATE_REMOVE}
         => /\ pc' = "pollButtons"
            /\ UNCHANGED <<state, subState, history, readIndex, writeIndex>>
      /\ pc' = "busy"
         => state \in {STATE_DEFAULT, STATE_REPLACE, STATE_LEFT_SENSOR_ERROR,
                       STATE_RIGHT_SENSOR_ERROR, STATE_BOTH_SENSORS_ERROR}
               ]_vars

\* A delete waits for its answer with both sensors blocked, and the loop
\* has been through pollSensors.
C25_Witness ==
  /\ pc = "pollButtons"
  /\ state = STATE_REMOVE
  /\ history # <<>>
  /\ \A c \in Channels : sensorLow[c]

\* ------------------------------------------------------------ speed
\* C26: for a travel time between 0 and MAX_MEASURE_TIME the speed that
\* measureSpeed returns, seen where pollSensors stores it, is the distance
\* in mm times 1000000 over the travel time in microseconds, in mm/s (to
\* the unit below); 300 mm in 100000 us give 3000 mm/s, which is appended.
C26_SpeedFormula ==
  [][ /\ Unblocked
      /\ sensorTime > 0 /\ sensorTime < MAX_MEASURE_TIME
      /\ state = STATE_DEFAULT
      => \A reading \in PotReadings :
           LET d == getSensorDistance(reading)
               v == LLget(history', writeIndex')
           IN /\ history' # history
                   => /\ v * sensorTime <= d * 1000000
                      /\ d * 1000000 < (v + 1) * sensorTime
              /\ sensorTime = 100000 /\ d = 300
                   => /\ v = 3000
                      /\ history' = Append(history, 3000) ]_vars

\* The first object took 100000 us from sensor to sensor: 3 m/s is the one
\* entry of the history.
C26_Witness ==
  /\ pc = "pollButtons"
  /\ history = <<3000>>
  /\ writeIndex = 0
  /\ readIndex = 0

\* C27: for one distance, a shorter travel time gives a higher speed and a
\* longer one a lower speed: each stored speed lies below the in-range
\* speed of every shorter travel time and above that of every longer one.
C27_SpeedDecreasing ==
  [][ /\ Unblocked
      /\ state = STATE_DEFAULT
      /\ history' # history
      => \A reading \in PotReadings : \A t \in TransitTimes :
           LET d == getSensorDistance(reading)
               v == LLget(history', writeIndex')
           IN InRange(SpeedOf(d, t)) =>
                /\ t < sensorTime => SpeedOf(d, t) > v
                /\ t > sensorTime => SpeedOf(d, t) < v ]_vars

\* A fast object and then a slower one have been measured: the history
\* holds the higher speed first.
C27_Witness ==
  /\ pc = "pollButtons"
  /\ Len(history) = 2
  /\ writeIndex = 1
  /\ history[1] > history[2]
  /\ history[2] > 0

\* ------------------------------------------------------------ distance
\* C28: getSensorDistance maps the readings 0..1023 linearly onto
\* MIN_SENSOR_DISTANCE..MAX_SENSOR_DISTANCE, 0 to the one and 1023 to the
\* other: the speed stored for an object that took one second, which is
\* the distance in mm, is the point of that line for one of the readings,
\* and within the two limits.
C28_DistanceLinear ==
  [][ /\ UnblockedAt(CalibrationReadings)
      /\ sensorTime = OneSecond
      /\ state = STATE_DEFAULT
      => LET v == LLget(history', writeIndex') IN
           /\ v >= MIN_SENSOR_DISTANCE /\ v <= MAX_SENSOR_DISTANCE
           /\ \E reading \in CalibrationReadings :
                v = MIN_SENSOR_DISTANCE
                      + (reading * (MAX_SENSOR_DISTANCE - MIN_SENSOR_DISTANCE))
                          \div 1023 ]_vars

\* ------------------------------------------------------------ unclear reading
\* C29: an ambiguous reading (one sensor triggered, the other not within
\* MAX_MEASURE_TIME, the first clear again at the timeout) changes no
\* state: device state, history, readIndex and writeIndex are after the poll
\* what they were before it, and the poll ends with nothing stored.
C29_AmbiguousChangesNothing ==
  [][ /\ BusyTimeout
      /\ \A c \in Channels : ~sensorLow[c]
      => /\ UNCHANGED <<state, history, readIndex, writeIndex>>
         /\ pc' = "pollButtons" ]_vars

\* C29, amended: the poll of an ambiguous reading stores nothing and ends
\* as one without a trigger; it leaves the device state alone but for the
\* single-sensor error state of a sensor that reads clear, which the same
\* poll resets to DEFAULT.
C29_AmbiguousStoresNothing ==
  [][ \/ PollSensors /\ pc' = "busy"
      \/ /\ BusyTimeout
         /\ \A c \in Channels : ~sensorLow[c]
      => /\ UNCHANGED <<history, readIndex, writeIndex, written>>
         /\ BusyTimeout => pc' = "pollButtons" /\ sensorTime' = -1
         /\ \/ state' = state
            \/ /\ state' = STATE_DEFAULT
               /\ \E c \in Channels : state = ErrorOf(c) /\ ~sensorLow[c] ]_vars

\* The busy-wait on the left sensor has timed out with both sensors clear,
\* in the error state of the right sensor.
C29_Witness ==
  /\ pc = "busy"
  /\ busyElapsed >= MAX_MEASURE_TIME
  /\ index = LEFT
  /\ \A c \in Channels : ~sensorLow[c]
  /\ state = STATE_RIGHT_SENSOR_ERROR

\* ------------------------------------------------------------ press settle
\* C30: a press that settles on one channel enters the single-channel
\* gesture of that channel only when no gesture is active: it never takes
\* the place of a gesture of the other channel that is under way, no action
\* having run for it yet.
C30_PressKeepsOtherGesture ==
  [][ PollButtons
      => \A i \in Channels :
           LET g == BeforeSettle(G, i, button) IN
             /\ g.debounceElapsed[i] > DEBOUNCE_TIME
             /\ button[i] = HIGH
             /\ Settle(g, i, button).buttonState = SinglePressed(i)
             => ~ /\ g.buttonState = SinglePressed(Other(i))
                  /\ g.gest = <<>> ]_vars

\* ------------------------------------------------------------ direction
\* C31: the speed of a transit and the update of the history do not depend
\* on the direction of travel: whichever sensor triggered first, the poll
\* that ends the transit stores the speed of the distance over the time
\* between the two triggers, staged at readIndex in REPLACE and at the slot after
\* writeIndex otherwise, and stores nothing when that speed is out of range.
C31_DirectionIndependent ==
  [][ Unblocked
      => \A reading \in PotReadings :
           LET d == getSensorDistance(reading)
               v == IF busyElapsed = 0 THEN 0
                    ELSE (d * 1000000) \div busyElapsed
               w == (writeIndex + 1) % HISTORY_SIZE
           IN IF v > MIN_SPEED * 1000 /\ v < MAX_SPEED * 1000
              THEN IF state = STATE_REPLACE
                   THEN /\ history' = SubSeq(history, 1, readIndex) \o <<v>>
                                \o SubSeq(history, readIndex + 1, Len(history))
                        /\ UNCHANGED <<writeIndex, readIndex>>
                   ELSE /\ writeIndex' = w
                        /\ readIndex' = IF readIndex < 0 THEN 0 ELSE readIndex
                        /\ history' = IF w < Len(history)
                                      THEN [history EXCEPT ![w + 1] = v]
                                      ELSE Append(history, v)
              ELSE UNCHANGED <<history, writeIndex, readIndex>> ]_vars

\* An object that came from the right has reached the left sensor in a time
\* that gives a speed in range, and has just left it; the history holds a
\* measurement already.
C31_Witness ==
  /\ pc = "unblock"
  /\ index = RIGHT
  /\ ~sensorLow[LEFT]
  /\ busyElapsed > 0
  /\ \A reading \in PotReadings :
       InRange(SpeedOf(getSensorDistance(reading), busyElapsed))
  /\ history # <<>>

\* ------------------------------------------------------------ empty history
\* C32: readIndex = -1 means that the history is empty: whenever the device
\* is in HISTORY with readIndex = -1 the list has no entries, also after
\* remove-all was chosen in the history menu and then cancelled.
C32_NoIndexMeansEmpty ==
  state = STATE_HISTORY /\ readIndex = -1 => history = <<>>

\* ------------------------------------------------------------ substate cursor
\* C33: the substate cursor stays inside the range of its parent state: in
\* SETTINGS subState is in 0..3 and in HISTORY_MENU it is in 0..5.
C33_SubStateInRange ==
  /\ state = STATE_SETTINGS => subState \in 0..3
  /\ state = STATE_HISTORY_MENU => subState \in 0..5

\* The menu has just been opened again by a hold of both buttons, with the
\* cursor where the last visit left it: on the last entry.
C33_Witness ==
  /\ pc = "pollSensors"
  /\ state = STATE_HISTORY_MENU
  /\ subState = 5
  /\ Names(fired) = <<"bothHold">>

\* ------------------------------------------------------------ replace round trip
\* C34: the replace round trip keeps the length of the history.  The
\* measurement made in REPLACE stages its speed at readIndex, so that the
\* history of before is the list without that entry; nothing moves while
\* the question is open; one answer gives back the history of before, the
\* other gives it with the new speed in slot readIndex; readIndex and
\* writeIndex are the same all along.
C34_ReplaceRoundTrip ==
  [][ /\ Unblocked /\ state = STATE_REPLACE /\ state' = STATE_REPLACE_QUESTION
        => /\ readIndex >= 0 /\ readIndex < Len(history)
           /\ Len(history') = Len(history) + 1
           /\ LLremove(history', readIndex) = history
           /\ UNCHANGED <<readIndex, writeIndex>>
      /\ state = STATE_REPLACE_QUESTION /\ state' = STATE_REPLACE_QUESTION
        => UNCHANGED <<history, readIndex, writeIndex>>
      /\ /\ PollButtons
         /\ state = STATE_REPLACE_QUESTION
         /\ \E k \in 1..Len(fired') : fired'[k].name \in {"left", "right"}
        => LET before == LLremove(history, readIndex)
               v == LLget(history, readIndex)
           IN /\ Len(history') = Len(before)
              /\ \/ history' = before
                 \/ history' = LLset(before, readIndex, v)
              /\ \E k \in 1..Len(fired') : fired'[k].name = "right"
                   => history' = before
              /\ \E k \in 1..Len(fired') : fired'[k].name = "left"
                   => history' = LLset(before, readIndex, v)
              /\ UNCHANGED <<readIndex, writeIndex>> ]_vars

\* The question is open on a new speed that differs from the one it was
\* measured for, and the release of the left button is about to settle.
C34_Witness ==
  /\ pc = "pollButtons"
  /\ state = STATE_REPLACE_QUESTION
  /\ buttonState = LEFT_BUTTON_PRESSED
  /\ button = [c \in Channels |-> LOW]
  /\ debounceElapsed[LEFT] > DEBOUNCE_TIME
  /\ holdElapsed <= BUTTON_HOLD_TIME
  /\ Len(history) = HISTORY_SIZE + 1
  /\ LLget(history, readIndex) # LLget(history, readIndex + 1)

\* ------------------------------------------------------------ staged value
\* C35: the staged value never outlives REPLACE_QUESTION: whichever event
\* leaves that state, it takes one of the two entries of the question out
\* of the list, so that the history is as long as before the measurement.
C35_StagedValueRemoved ==
  [][ state = STATE_REPLACE_QUESTION /\ state' # STATE_REPLACE_QUESTION
      => Len(history') = Len(history) - 1 ]_vars

C37_StoredValuesInRange ==
  /\ \A k \in 1..Len(history) :
       history[k] > MIN_SPEED * 1000 /\ history[k] < MAX_SPEED * 1000
  /\ \A i \in 0..(Len(history) - 1) : LLget(history, i) # 0

\* The history is full and a further object has passed in a time that gives
\* a speed in range: the slot to overwrite is about to be tested.
C37_Witness ==
  /\ pc = "unblock"
  /\ state = STATE_DEFAULT
  /\ ~sensorLow[Other(index)]
  /\ Len(history) = HISTORY_SIZE
  /\ writeIndex = HISTORY_SIZE - 1
  /\ \A reading \in PotReadings :
       InRange(SpeedOf(getSensorDistance(reading), sensorTime))

\* ------------------------------------------------------------ microsecond clock
\* C38: whatever the microsecond clock read at the trigger, a busy-wait
\* that runs out with the starting sensor clear again, and after which the
\* call starts no further wait, ends with the unclear-reading message and
\* its wait of DISPLAY_WAIT_TIME.
C38_UnclearAtAnyClock ==
  [][ /\ BusyTimeoutAt(ClockReadings)
      /\ ~sensorLow[index]
      /\ pc' = "pollButtons"
      => UnclearReading(sensorTime) ]_vars

====
